---------------------------- MODULE Spec2Model ----------------------------
(***************************************************************************)
(* Model of the Vacancy Shadow Liability (VSL) package: src/src/vsl.       *)
(*                                                                         *)
(*   model.py   calculate_direct_costs, calculate_foregone_tax_pv,         *)
(*              calculate_vsl, generate_citywide_summary                   *)
(*   loader.py  load_config, get_scenario_params, load_neighborhood_data   *)
(*   cli.py     run_model (the `run` command)                              *)
(*                                                                         *)
(* Numbers.  The program computes in IEEE doubles.  The model computes in  *)
(* exact extended rationals [n, d]: d > 0 is the fraction n/d in lowest    *)
(* terms, d = 0 is a non-finite value (n = 0 not-a-number, n = 1 +inf,     *)
(* n = -1 -inf), which is what numpy's division by zero produces.  The     *)
(* exponent years_vacant_avg is drawn from the naturals, so that powers    *)
(* stay rational.                                                          *)
(*                                                                         *)
(* Exceptions.  A function that raises returns a record whose field err    *)
(* names the Python exception class that the code raises there.            *)
(***************************************************************************)
EXTENDS Integers, Sequences, FiniteSets, TLC

(***************************************************************************)
(* Bounds of the model.                                                    *)
(***************************************************************************)
\* Largest number of rows of an input CSV file.
MaxRows == 3
\* Largest projection_years of a scenario.
MaxProjectionYears == 3

(***************************************************************************)
(* Extended rational arithmetic (the model of Python/numpy floats).        *)
(***************************************************************************)
Abs(x) == IF x < 0 THEN -x ELSE x

Sgn(x) == IF x < 0 THEN -1 ELSE IF x > 0 THEN 1 ELSE 0

RECURSIVE GCD(_, _)
GCD(a, b) == IF b = 0 THEN a ELSE GCD(b, a % b)

\* The fraction n/d for d /= 0, in lowest terms with a positive denominator.
Rat(n, d) ==
    LET g == GCD(Abs(n), Abs(d))
    IN  [n |-> Sgn(d) * (n \div g), d |-> Abs(d) \div g]

FromInt(k) == [n |-> k, d |-> 1]

Zero == FromInt(0)
One == FromInt(1)
NaN == [n |-> 0, d |-> 0]

IsFinite(x) == x.d # 0
IsNaN(x) == x.d = 0 /\ x.n = 0

RAdd(a, b) ==
    IF IsFinite(a) /\ IsFinite(b) THEN Rat(a.n * b.d + b.n * a.d, a.d * b.d)
    ELSE IF IsNaN(a) \/ IsNaN(b) THEN NaN
    ELSE IF IsFinite(a) THEN b
    ELSE IF IsFinite(b) THEN a
    ELSE IF a.n = b.n THEN a ELSE NaN

RSub(a, b) == RAdd(a, [n |-> -b.n, d |-> b.d])

RMul(a, b) ==
    IF IsFinite(a) /\ IsFinite(b) THEN Rat(a.n * b.n, a.d * b.d)
    ELSE [n |-> Sgn(a.n) * Sgn(b.n), d |-> 0]

\* numpy's true division: x/0 is +-inf, 0/0 is not-a-number, no exception.
RDiv(a, b) ==
    IF IsFinite(a) /\ IsFinite(b)
    THEN IF b.n = 0 THEN [n |-> Sgn(a.n), d |-> 0]
         ELSE Rat(a.n * b.d, a.d * b.n)
    ELSE IF IsFinite(b) /\ ~IsNaN(a)
         THEN [n |-> a.n * (IF b.n < 0 THEN -1 ELSE 1), d |-> 0]
    ELSE IF IsFinite(a) /\ ~IsNaN(b) THEN Zero
    ELSE NaN

\* a ** k for a natural exponent k.
RECURSIVE RPow(_, _)
RPow(a, k) == IF k = 0 THEN One ELSE RMul(a, RPow(a, k - 1))

\* a < b on floats: false as soon as one side is not-a-number.
RLess(a, b) ==
    IF IsNaN(a) \/ IsNaN(b) THEN FALSE
    ELSE IF IsFinite(a) /\ IsFinite(b) THEN a.n * b.d < b.n * a.d
    ELSE IF IsFinite(a) THEN b.n > 0
    ELSE IF IsFinite(b) THEN a.n < 0
    ELSE a.n < b.n


\* Faulty variant of FloatPow: `*` written for `**`.
FloatPow_Times(a, y) == RMul(a, y)

\* a ** y for a float y that holds a natural number.
FloatPow(a, y) == RPow(a, y.n)

(***************************************************************************)
(* Optional values: a Python name that is unbound or None is <<>>, a bound *)
(* one is <<value>>.                                                       *)
(***************************************************************************)
None == << >>
Some(x) == << x >>
IsSome(o) == Len(o) = 1
Get(o) == o[1]

NoError == [kind |-> "none", detail |-> ""]
Raise(kind, detail) == [kind |-> kind, detail |-> detail]

(***************************************************************************)
(* model.py                                                                *)
(***************************************************************************)
\* The parameter keys in the order in which calculate_direct_costs reads them.
DirectCostKeys ==
    << "fire_response_cost", "police_response_cost", "code_enforcement_cost",
       "demolition_amortized_cost", "blight_remediation_cost",
       "spillover_multiplier" >>

\* The parameter keys in the order in which calculate_foregone_tax_pv reads them.
ForegoneTaxKeys ==
    << "tax_rate", "assessment_decay_rate", "discount_rate", "projection_years" >>

\* params[key] for each key of keys in turn: the first absent key raises
\* KeyError(key); "" when every key is present.
RECURSIVE FirstMissingKey(_, _)
FirstMissingKey(keys, params) ==
    IF keys = << >> THEN ""
    ELSE IF Head(keys) \notin DOMAIN params THEN Head(keys)
    ELSE FirstMissingKey(Tail(keys), params)

\* calculate_direct_costs, lines 38-47: the per-unit annual cost of a scenario.
per_unit_cost(params) ==
    RMul(RAdd(RAdd(RAdd(RAdd(params["fire_response_cost"],
                             params["police_response_cost"]),
                        params["code_enforcement_cost"]),
                   params["demolition_amortized_cost"]),
              params["blight_remediation_cost"]),
         params["spillover_multiplier"])

\* Faulty variant of calculate_direct_costs: params.get(key, 0) written for
\* params[key], so that an absent key counts as 0.
calculate_direct_costs_Defaulting(df, params) ==
    LET get(k) == IF k \in DOMAIN params THEN params[k] ELSE Zero
        cost ==
            RMul(RAdd(RAdd(RAdd(RAdd(get("fire_response_cost"),
                                     get("police_response_cost")),
                                get("code_enforcement_cost")),
                           get("demolition_amortized_cost")),
                      get("blight_remediation_cost")),
                 get("spillover_multiplier"))
    IN  [err |-> NoError,
         table |-> [i \in 1..Len(df) |->
             [direct_cost_per_unit |-> cost,
              direct_cost_total |-> RMul(df[i].vacant_units, cost)] @@ df[i]]]

\* calculate_direct_costs(df, params): [err, table].
calculate_direct_costs(df, params) ==
    LET missing == FirstMissingKey(DirectCostKeys, params)
    IN  IF missing # "" THEN [err |-> Raise("KeyError", missing), table |-> << >>]
        ELSE [err |-> NoError,
              table |-> [i \in 1..Len(df) |->
                  [direct_cost_per_unit |-> per_unit_cost(params),
                   direct_cost_total |->
                       RMul(df[i].vacant_units, per_unit_cost(params))]
                  @@ df[i]]]

\* Faulty variant of ProjectionLoop: range(0, years) written for
\* range(1, years + 1), so that every exponent is one less.
RECURSIVE ProjectionLoop_FromYearZero(_, _, _, _, _, _, _)
ProjectionLoop_FromYearZero(year, years, current_value, tax_rate, decay_rate, discount_rate, pv_total) ==
    IF year > years THEN pv_total
    ELSE LET projected_value ==
                 RMul(current_value, RPow(RSub(One, decay_rate), year - 1))
             annual_tax == RMul(projected_value, tax_rate)
             pv_factor == RDiv(One, RPow(RAdd(One, discount_rate), year - 1))
         IN  ProjectionLoop_FromYearZero(year + 1, years, current_value, tax_rate,
                                         decay_rate, discount_rate,
                                         RAdd(pv_total, RMul(annual_tax, pv_factor)))

\* The body of `for year in range(1, years + 1)`, lines 92-101, from `year` on:
\* pv_total after the loop, given pv_total before this iteration.
RECURSIVE ProjectionLoop(_, _, _, _, _, _, _)
ProjectionLoop(year, years, current_value, tax_rate, decay_rate, discount_rate, pv_total) ==
    IF year > years THEN pv_total
    ELSE LET projected_value == RMul(current_value, RPow(RSub(One, decay_rate), year))
             annual_tax == RMul(projected_value, tax_rate)
             pv_factor == RDiv(One, RPow(RAdd(One, discount_rate), year))
         IN  ProjectionLoop(year + 1, years, current_value, tax_rate, decay_rate,
                            discount_rate, RAdd(pv_total, RMul(annual_tax, pv_factor)))

\* One iteration of `for _, row in result.iterrows()`, lines 83-104: the entry
\* appended to foregone_pv_list for this row.
RowForegonePv(row, params) ==
    LET units == row.vacant_units
        base_value == row.avg_assessed_value
        years_already_vacant == row.years_vacant_avg
        decay_rate == params["assessment_decay_rate"]
        current_value ==
            RMul(base_value, FloatPow(RSub(One, decay_rate), years_already_vacant))
        pv_total ==
            ProjectionLoop(1, params["projection_years"], current_value,
                           params["tax_rate"], decay_rate, params["discount_rate"], Zero)
    IN  RMul(pv_total, units)

\* Line 100 divides Python floats: 1 / 0.0 raises ZeroDivisionError.  It is
\* reached when some row is iterated, some year is projected and
\* 1 + discount_rate = 0.
PvFactorDividesByZero(df, params) ==
    /\ Len(df) >= 1
    /\ params["projection_years"] >= 1
    /\ RAdd(One, params["discount_rate"]).n = 0

\* calculate_foregone_tax_pv(df, params): [err, table].
calculate_foregone_tax_pv(df, params) ==
    LET missing == FirstMissingKey(ForegoneTaxKeys, params)
    IN  IF missing # "" THEN [err |-> Raise("KeyError", missing), table |-> << >>]
        ELSE IF PvFactorDividesByZero(df, params)
        THEN [err |-> Raise("ZeroDivisionError", "float division by zero"),
              table |-> << >>]
        ELSE [err |-> NoError,
              table |-> [i \in 1..Len(df) |->
                  [foregone_tax_pv |-> RowForegonePv(df[i], params)] @@ df[i]]]

\* Faulty variant of WithTotals: the column direct_cost_per_unit added for
\* direct_cost_total.
WithTotals_PerUnitColumn(row) ==
    LET total_vsl == RAdd(row.direct_cost_per_unit, row.foregone_tax_pv)
    IN  [total_vsl |-> total_vsl,
         vsl_per_unit |-> RDiv(total_vsl, row.vacant_units)] @@ row

\* Faulty variant of WithTotals: a division by zero units filled with 0.
WithTotals_ZeroFilled(row) ==
    LET total_vsl == RAdd(row.direct_cost_total, row.foregone_tax_pv)
    IN  [total_vsl |-> total_vsl,
         vsl_per_unit |->
             IF row.vacant_units.n = 0 THEN Zero
             ELSE RDiv(total_vsl, row.vacant_units)] @@ row

\* Lines 128-132 of calculate_vsl: the total and per-unit columns of one row.
WithTotals(row) ==
    LET total_vsl == RAdd(row.direct_cost_total, row.foregone_tax_pv)
    IN  [total_vsl |-> total_vsl,
         vsl_per_unit |-> RDiv(total_vsl, row.vacant_units)] @@ row

\* calculate_vsl(df, params): [err, table].
calculate_vsl(df, params) ==
    LET direct == calculate_direct_costs(df, params)
        foregone == calculate_foregone_tax_pv(direct.table, params)
    IN  IF direct.err # NoError THEN direct
        ELSE IF foregone.err # NoError THEN foregone
        ELSE [err |-> NoError,
              table |-> [i \in 1..Len(foregone.table) |-> WithTotals(foregone.table[i])]]

\* Series.sum(): the sum of one column, 0 for an empty column.
RECURSIVE ColumnSum(_, _)
ColumnSum(df, col) ==
    IF df = << >> THEN Zero ELSE RAdd(df[1][col], ColumnSum(Tail(df), col))

\* Faulty variant of IdxMaxFrom: a later row that equals the best so far
\* replaces it, so that the last occurrence of the maximum is found.
RECURSIVE IdxMaxFrom_LastOccurrence(_, _, _)
IdxMaxFrom_LastOccurrence(df, i, best) ==
    IF i > Len(df) THEN best
    ELSE IF ~RLess(df[i].total_vsl, df[best].total_vsl)
    THEN IdxMaxFrom_LastOccurrence(df, i + 1, i)
    ELSE IdxMaxFrom_LastOccurrence(df, i + 1, best)

\* Series.idxmax() of total_vsl: the position of the first occurrence of the
\* maximum, scanning rows i..Len(df) with the best position so far.
RECURSIVE IdxMaxFrom(_, _, _)
IdxMaxFrom(df, i, best) ==
    IF i > Len(df) THEN best
    ELSE IF RLess(df[best].total_vsl, df[i].total_vsl) THEN IdxMaxFrom(df, i + 1, i)
    ELSE IdxMaxFrom(df, i + 1, best)

idxmax(df) == IdxMaxFrom(df, 2, 1)

\* Faulty variant of avg_vsl_per_unit: df["vsl_per_unit"].mean() without
\* skipping, the unweighted mean of the rows.
avg_vsl_per_unit_MeanOfRows(df) ==
    RDiv(ColumnSum(df, "vsl_per_unit"), FromInt(Len(df)))

\* Line 155: the value of the key "avg_vsl_per_unit".
avg_vsl_per_unit(df) ==
    RDiv(ColumnSum(df, "total_vsl"), ColumnSum(df, "vacant_units"))

\* What evaluating the dictionary of lines 148-158 raises on a table without
\* rows.  Every sum is 0 and the maximum is not-a-number; 0/0 of two Python
\* ints (object columns) raises ZeroDivisionError at line 155, otherwise
\* numpy yields not-a-number and idxmax of an empty column raises ValueError
\* at line 157.
EmptyTableErrors ==
    { Raise("ZeroDivisionError", "division by zero"),
      Raise("ValueError", "attempt to get argmax of an empty sequence") }

\* generate_citywide_summary(df, scenario): the set of its possible outcomes
\* [err, table]; the table returned holds exactly one row.
generate_citywide_summary(df, scenario) ==
    IF Len(df) = 0 THEN { [err |-> e, table |-> << >>] : e \in EmptyTableErrors }
    ELSE { [err |-> NoError,
            table |-> <<
              [scenario |-> scenario,
               total_neighborhoods |-> Len(df),
               total_vacant_units |-> ColumnSum(df, "vacant_units"),
               total_direct_costs |-> ColumnSum(df, "direct_cost_total"),
               total_foregone_tax_pv |-> ColumnSum(df, "foregone_tax_pv"),
               total_vsl |-> ColumnSum(df, "total_vsl"),
               avg_vsl_per_unit |-> avg_vsl_per_unit(df),
               max_neighborhood_vsl |-> df[idxmax(df)].total_vsl,
               max_neighborhood_name |-> df[idxmax(df)].neighborhood] >>] }

(***************************************************************************)
(* Inputs: the configuration files and the CSV files of the model.         *)
(***************************************************************************)
\* A complete scenario: every key that model.py reads.
BaseParams ==
    [fire_response_cost |-> FromInt(2),
     police_response_cost |-> FromInt(1),
     code_enforcement_cost |-> FromInt(1),
     demolition_amortized_cost |-> FromInt(1),
     blight_remediation_cost |-> Zero,
     spillover_multiplier |-> Rat(3, 2),
     tax_rate |-> Rat(1, 4),
     assessment_decay_rate |-> Rat(1, 2),
     discount_rate |-> One,
     projection_years |-> MaxProjectionYears]

DecayRates == {Zero, Rat(1, 2)}
DiscountRates == {Zero, One}
ProjectionYears == (-1)..MaxProjectionYears

CompleteParams ==
    { [BaseParams EXCEPT !.assessment_decay_rate = dr,
                         !.discount_rate = r,
                         !.projection_years = y] :
        dr \in DecayRates, r \in DiscountRates, y \in ProjectionYears }

\* The scenario p without the key k.
Without(p, k) == [x \in (DOMAIN p) \ {k} |-> p[x]]

IncompleteParams == { Without(BaseParams, k) : k \in DOMAIN BaseParams }

ScenarioNames == {"low", "base", "high"}

\* The parsed config.yaml files: one that defines only the scenario "base",
\* for every parameter set, and one that defines all three scenarios.
ConfigFiles ==
    { [scenarios |-> [s \in {"base"} |-> p]] : p \in CompleteParams \cup IncompleteParams }
    \cup { [scenarios |-> [s \in ScenarioNames |-> BaseParams]] }

NeighborhoodNames == << "N1", "N2", "N3", "N4", "N5", "N6" >>

\* The data rows of a CSV file after pd.to_numeric: (vacant_units,
\* avg_assessed_value, years_vacant_avg); a cell that does not parse as a
\* number is not-a-number.
RowKinds ==
    { << FromInt(1), FromInt(1), Zero >>,
      << FromInt(1), FromInt(1), FromInt(2) >>,
      << FromInt(2), FromInt(6), Zero >>,
      << FromInt(4), FromInt(2), Zero >>,
      << Zero, FromInt(2), One >>,
      << NaN, FromInt(2), One >> }

RequiredColumns ==
    {"neighborhood", "vacant_units", "avg_assessed_value", "years_vacant_avg"}

\* The CSV files: the columns of the header and up to MaxRows data rows, the
\* i-th named after its position.
CsvFiles ==
    { [columns |-> RequiredColumns,
       rows |-> [i \in 1..Len(f) |->
           [neighborhood |-> NeighborhoodNames[i],
            vacant_units |-> f[i][1],
            avg_assessed_value |-> f[i][2],
            years_vacant_avg |-> f[i][3]]]] :
        f \in UNION { [1..m -> RowKinds] : m \in 0..MaxRows } }
    \cup { [columns |-> RequiredColumns \ {"years_vacant_avg"}, rows |-> << >>] }

(***************************************************************************)
(* loader.py                                                               *)
(***************************************************************************)
\* get_scenario_params(config, scenario): [err, params].
get_scenario_params(config, scenario) ==
    IF scenario \notin DOMAIN config.scenarios
    THEN [err |-> Raise("KeyError", scenario), params |-> None]
    ELSE [err |-> NoError, params |-> Some(config.scenarios[scenario])]

\* df.dropna(subset=required_columns): the rows without a null cell.
HasNull(row) ==
    \/ IsNaN(row.vacant_units)
    \/ IsNaN(row.avg_assessed_value)
    \/ IsNaN(row.years_vacant_avg)

dropna(rows) == SelectSeq(rows, LAMBDA row : ~HasNull(row))

\* load_neighborhood_data(csv_path) on the file csv: [err, table].
load_neighborhood_data(csv) ==
    IF RequiredColumns \ csv.columns # {}
    THEN [err |-> Raise("ValueError", "Missing required columns"), table |-> << >>]
    ELSE [err |-> NoError, table |-> dropna(csv.rows)]

(***************************************************************************)
(* cli.py: one run of the `run` command, run_model(args).                  *)
(***************************************************************************)
VARIABLES
    pc,          \* the statement of run_model that runs next
    scenario,    \* args.scenario
    config,      \* the local config
    params,      \* the local params
    df,          \* the local df
    results,     \* the local results
    summary,     \* the local summary: a table of at most one row
    error,       \* the exception that ended the run
    output_dir,  \* whether args.output_dir exists
    written      \* the output files written so far

vars == << pc, scenario, config, params, df, results, summary, error,
           output_dir, written >>

OutputFiles ==
    {"vsl_neighborhood.csv", "vsl_citywide_summary.csv", "vsl_by_neighborhood.png"}

Init ==
    /\ pc = "load_config"
    /\ scenario \in ScenarioNames
    /\ config = None
    /\ params = None
    /\ df = None
    /\ results = None
    /\ summary = << >>
    /\ error = NoError
    /\ output_dir = FALSE
    /\ written = {}

\* An uncaught exception ends the run.
Fail(e) ==
    /\ error' = e
    /\ pc' = "failed"

\* Line 113: config = load_config(args.config).
LoadConfig ==
    /\ pc = "load_config"
    /\ \/ /\ \E file \in ConfigFiles : config' = Some(file)
          /\ pc' = "get_scenario_params"
          /\ UNCHANGED error
       \/ /\ Fail(Raise("FileNotFoundError", "config"))
          /\ UNCHANGED config
    /\ UNCHANGED << scenario, params, df, results, summary, output_dir, written >>

\* Line 114: params = get_scenario_params(config, args.scenario).
GetScenarioParams ==
    /\ pc = "get_scenario_params"
    /\ LET out == get_scenario_params(Get(config), scenario)
       IN  IF out.err # NoError
           THEN Fail(out.err) /\ UNCHANGED params
           ELSE /\ params' = out.params
                /\ pc' = "load_neighborhood_data"
                /\ UNCHANGED error
    /\ UNCHANGED << scenario, config, df, results, summary, output_dir, written >>

\* Line 118: df = load_neighborhood_data(args.input).
LoadNeighborhoodData ==
    /\ pc = "load_neighborhood_data"
    /\ \/ \E csv \in CsvFiles :
            LET out == load_neighborhood_data(csv)
            IN  IF out.err # NoError
                THEN Fail(out.err) /\ UNCHANGED df
                ELSE /\ df' = Some(out.table)
                     /\ pc' = "calculate_vsl"
                     /\ UNCHANGED error
       \/ /\ Fail(Raise("FileNotFoundError", "input"))
          /\ UNCHANGED df
    /\ UNCHANGED << scenario, config, params, results, summary, output_dir, written >>

\* Line 123: results = calculate_vsl(df, params).
CalculateVsl ==
    /\ pc = "calculate_vsl"
    /\ LET out == calculate_vsl(Get(df), Get(params))
       IN  IF out.err # NoError
           THEN Fail(out.err) /\ UNCHANGED results
           ELSE /\ results' = Some(out.table)
                /\ pc' = "generate_citywide_summary"
                /\ UNCHANGED error
    /\ UNCHANGED << scenario, config, params, df, summary, output_dir, written >>

\* Line 124: summary = generate_citywide_summary(results, args.scenario).
GenerateCitywideSummary ==
    /\ pc = "generate_citywide_summary"
    /\ \E out \in generate_citywide_summary(Get(results), scenario) :
          IF out.err # NoError
          THEN Fail(out.err) /\ UNCHANGED summary
          ELSE /\ summary' = out.table
               /\ pc' = "mkdir"
               /\ UNCHANGED error
    /\ UNCHANGED << scenario, config, params, df, results, output_dir, written >>

\* Line 127: args.output_dir.mkdir(parents=True, exist_ok=True).
MakeOutputDir ==
    /\ pc = "mkdir"
    /\ output_dir' = TRUE
    /\ pc' = "write_neighborhood"
    /\ UNCHANGED << scenario, config, params, df, results, summary, error, written >>

\* Faulty variant of WriteNeighborhoodCsv: the results are also saved as soon
\* as calculate_vsl has returned, before the summary is computed.
WriteNeighborhoodCsv_BeforeSummary ==
    /\ \/ /\ pc = "generate_citywide_summary"
          /\ "vsl_neighborhood.csv" \notin written
          /\ pc' = pc
       \/ /\ pc = "write_neighborhood"
          /\ pc' = "write_summary"
    /\ written' = written \cup {"vsl_neighborhood.csv"}
    /\ UNCHANGED << scenario, config, params, df, results, summary, error, output_dir >>

\* Line 134: results.to_csv(neighborhood_output, index=False).
WriteNeighborhoodCsv ==
    /\ pc = "write_neighborhood"
    /\ written' = written \cup {"vsl_neighborhood.csv"}
    /\ pc' = "write_summary"
    /\ UNCHANGED << scenario, config, params, df, results, summary, error, output_dir >>

\* Line 137: summary.to_csv(summary_output, index=False).
WriteSummaryCsv ==
    /\ pc = "write_summary"
    /\ written' = written \cup {"vsl_citywide_summary.csv"}
    /\ pc' = "plot"
    /\ UNCHANGED << scenario, config, params, df, results, summary, error, output_dir >>

\* Line 140: plot_by_neighborhood(results, plot_output, args.scenario).
PlotByNeighborhood ==
    /\ pc = "plot"
    /\ written' = written \cup {"vsl_by_neighborhood.png"}
    /\ pc' = "print_summary"
    /\ UNCHANGED << scenario, config, params, df, results, summary, error, output_dir >>

\* Lines 143-153: the summary is printed and run_model returns.
PrintSummary ==
    /\ pc = "print_summary"
    /\ pc' = "done"
    /\ UNCHANGED << scenario, config, params, df, results, summary, error,
                    output_dir, written >>

Next ==
    \/ LoadConfig
    \/ GetScenarioParams
    \/ LoadNeighborhoodData
    \/ CalculateVsl
    \/ GenerateCitywideSummary
    \/ MakeOutputDir
    \/ WriteNeighborhoodCsv
    \/ WriteSummaryCsv
    \/ PlotByNeighborhood
    \/ PrintSummary

Spec == Init /\ [][Next]_vars

(***************************************************************************)
(* Properties.                                                             *)
(***************************************************************************)
\* calculate_vsl has been called with the current df and params.
Calculated == IsSome(df) /\ pc # "calculate_vsl"

\* generate_citywide_summary has been called with the current results.
Summarized == IsSome(results) /\ pc # "generate_citywide_summary"

RequiredKeys == DOMAIN BaseParams

IsComplete(p) == RequiredKeys \subseteq DOMAIN p

ZeroUnitRows(t) == { i \in 1..Len(t) : t[i].vacant_units = Zero }

\* C1: every row of the table that calculate_vsl returns satisfies
\* total_vsl = direct_cost_total + foregone_tax_pv exactly, the rows with
\* vacant_units = 0 included.
C1_TotalIsDirectPlusForegone ==
    IsSome(results) =>
        \A i \in 1..Len(Get(results)) :
            LET r == Get(results)[i]
            IN  /\ IsFinite(r.total_vsl)
                /\ RSub(r.total_vsl, r.direct_cost_total) = r.foregone_tax_pv
                /\ RSub(r.total_vsl, r.foregone_tax_pv) = r.direct_cost_total

\* A table was returned that holds a row without units and a row whose two
\* parts are both positive.
C1_Witness ==
    /\ IsSome(results)
    /\ ZeroUnitRows(Get(results)) # {}
    /\ \E i \in 1..Len(Get(results)) :
          /\ Get(results)[i].direct_cost_total.n > 0
          /\ Get(results)[i].foregone_tax_pv.n > 0

\* The rows of t that hold the maximum of total_vsl.
MaxRowsOf(t) ==
    { i \in 1..Len(t) : \A j \in 1..Len(t) : ~RLess(t[i].total_vsl, t[j].total_vsl) }

\* The smallest element of a non-empty set of positions.
First(S) == CHOOSE i \in S : \A j \in S : i <= j

\* C2: when several rows share the maximum total_vsl, the summary names the
\* first of them in row order, and max_neighborhood_vsl is that maximum.
C2_FirstMaximumIsReported ==
    Len(summary) = 1 =>
        LET t == Get(results)
            first == First(MaxRowsOf(t))
        IN  /\ summary[1].max_neighborhood_name = t[first].neighborhood
            /\ summary[1].max_neighborhood_vsl = t[first].total_vsl

\* A summary of three rows whose maximum is shared by the second and the
\* third row only.
C2_Witness ==
    /\ Len(summary) = 1
    /\ Len(Get(results)) = 3
    /\ MaxRowsOf(Get(results)) = {2, 3}
    /\ summary[1].max_neighborhood_name = Get(results)[2].neighborhood

\* C3: generate_citywide_summary on a table without rows fails with
\* EmptyDatasetError, and no summary row is produced.
C3_EmptyTableRaisesEmptyDatasetError ==
    (Summarized /\ Len(Get(results)) = 0) =>
        /\ error.kind = "EmptyDatasetError"
        /\ summary = << >>

\* C4: with projection_years <= 0 the projection of a table that holds a row
\* with units fails with InvalidConfigurationError and returns no rows.
C4_NonPositiveYearsRaiseInvalidConfiguration ==
    (/\ Calculated
     /\ IsComplete(Get(params))
     /\ Get(params)["projection_years"] <= 0
     /\ \E i \in 1..Len(Get(df)) : Get(df)[i].vacant_units.n > 0) =>
        /\ error.kind = "InvalidConfigurationError"
        /\ results = None

\* The unweighted mean of vsl_per_unit over the rows of t, all of them with
\* units.
RECURSIVE SumVslPerUnit(_)
SumVslPerUnit(t) ==
    IF t = << >> THEN Zero ELSE RAdd(t[1].vsl_per_unit, SumVslPerUnit(Tail(t)))

MeanVslPerUnit(t) == RDiv(SumVslPerUnit(t), FromInt(Len(t)))

\* The rows of t all have units, and no two of them agree on vacant_units or
\* on vsl_per_unit.
RowsAllDiffer(t) ==
    /\ Len(t) >= 2
    /\ ZeroUnitRows(t) = {}
    /\ \A i, j \in 1..Len(t) :
          i # j => /\ t[i].vacant_units # t[j].vacant_units
                   /\ t[i].vsl_per_unit # t[j].vsl_per_unit

\* avg_vsl_per_unit is the quotient of the two column sums.
AvgIsWeighted(t) ==
    LET units == ColumnSum(t, "vacant_units")
        total == ColumnSum(t, "total_vsl")
        avg == summary[1].avg_vsl_per_unit
    IN  IF units.n = 0 THEN IsNaN(avg) /\ total = Zero
        ELSE /\ IsFinite(avg)
             /\ RMul(avg, units) = total

\* C5 as stated: avg_vsl_per_unit is sum(total_vsl) / sum(vacant_units), and
\* it differs from the unweighted mean of vsl_per_unit whenever the rows
\* differ in vacant_units and in vsl_per_unit.
C5_AvgDiffersFromMeanWheneverRowsDiffer ==
    Len(summary) = 1 =>
        /\ AvgIsWeighted(Get(results))
        /\ RowsAllDiffer(Get(results)) =>
              summary[1].avg_vsl_per_unit # MeanVslPerUnit(Get(results))

\* C5 amended: avg_vsl_per_unit is sum(total_vsl) / sum(vacant_units), and in
\* a table of two rows it differs from the unweighted mean of vsl_per_unit
\* whenever the two rows differ in vacant_units and in vsl_per_unit.
C5_AvgIsWeightedAndDiffersForTwoRows ==
    Len(summary) = 1 =>
        /\ AvgIsWeighted(Get(results))
        /\ (Len(Get(results)) = 2 /\ RowsAllDiffer(Get(results))) =>
              summary[1].avg_vsl_per_unit # MeanVslPerUnit(Get(results))

\* A summary of two rows that differ in units and in vsl_per_unit.
C5_Witness ==
    /\ Len(summary) = 1
    /\ Len(Get(results)) = 2
    /\ RowsAllDiffer(Get(results))
    /\ summary[1].avg_vsl_per_unit # MeanVslPerUnit(Get(results))

\* The table t without its rows of vacant_units = 0.
WithoutZeroUnitRows(t) == SelectSeq(t, LAMBDA row : row.vacant_units # Zero)

\* The number of rows with units among the first i rows of t.
RECURSIVE RankWithUnits(_, _)
RankWithUnits(t, i) ==
    IF i = 0 THEN 0
    ELSE RankWithUnits(t, i - 1) + (IF t[i].vacant_units # Zero THEN 1 ELSE 0)

\* C6: a row with vacant_units = 0 does not abort calculate_vsl; it gets
\* vsl_per_unit = not-a-number and foregone_tax_pv = direct_cost_total =
\* total_vsl = 0, and every other row gets the values it gets when the
\* rows without units are absent from the table.
C6_ZeroUnitRowIsNotFatal ==
    (/\ Calculated
     /\ IsComplete(Get(params))
     /\ ZeroUnitRows(Get(df)) # {}) =>
        /\ IsSome(results)
        /\ error = NoError
        /\ Len(Get(results)) = Len(Get(df))
        /\ \A i \in ZeroUnitRows(Get(df)) :
              /\ IsNaN(Get(results)[i].vsl_per_unit)
              /\ Get(results)[i].foregone_tax_pv = Zero
              /\ Get(results)[i].direct_cost_total = Zero
              /\ Get(results)[i].total_vsl = Zero
        /\ LET alone == calculate_vsl(WithoutZeroUnitRows(Get(df)), Get(params))
           IN  /\ alone.err = NoError
               /\ \A i \in (1..Len(Get(df))) \ ZeroUnitRows(Get(df)) :
                     Get(results)[i] = alone.table[RankWithUnits(Get(df), i)]

\* calculate_vsl returned a table whose second row has no units, between two
\* rows that have units and a positive foregone tax.
C6_Witness ==
    /\ IsSome(results)
    /\ Len(Get(results)) = 3
    /\ ZeroUnitRows(Get(results)) = {2}
    /\ Get(results)[2].avg_assessed_value.n > 0
    /\ Get(results)[1].foregone_tax_pv.n > 0
    /\ Get(results)[3].foregone_tax_pv.n > 0

C9_NoDecayIgnoresYearsVacant ==
    (IsSome(results) /\ Get(params)["assessment_decay_rate"] = Zero) =>
        \A i, j \in 1..Len(Get(results)) :
            (/\ Get(results)[i].vacant_units = Get(results)[j].vacant_units
             /\ Get(results)[i].avg_assessed_value = Get(results)[j].avg_assessed_value)
            => Get(results)[i].foregone_tax_pv = Get(results)[j].foregone_tax_pv

\* Without decay, two rows that differ only in years_vacant_avg got the same
\* positive foregone_tax_pv.
C9_Witness ==
    /\ IsSome(results)
    /\ Get(params)["assessment_decay_rate"] = Zero
    /\ \E i, j \in 1..Len(Get(results)) :
          /\ Get(results)[i].vacant_units = Get(results)[j].vacant_units
          /\ Get(results)[i].avg_assessed_value = Get(results)[j].avg_assessed_value
          /\ Get(results)[i].years_vacant_avg # Get(results)[j].years_vacant_avg
          /\ Get(results)[i].foregone_tax_pv = Get(results)[j].foregone_tax_pv
          /\ Get(results)[i].foregone_tax_pv.n > 0

\* The tax of year t per unit of a row, discounted to the present:
\* avg_assessed_value * (1 - decay)^years_vacant_avg * (1 - decay)^t
\*   * tax_rate / (1 + discount)^t.
DiscountedTax(row, p, t) ==
    RDiv(RMul(RMul(RMul(row.avg_assessed_value,
                        RPow(RSub(One, p["assessment_decay_rate"]),
                             row.years_vacant_avg.n)),
                   RPow(RSub(One, p["assessment_decay_rate"]), t)),
              p["tax_rate"]),
         RPow(RAdd(One, p["discount_rate"]), t))

\* The sum of DiscountedTax over the years of the set T.
RECURSIVE SumDiscountedTax(_, _, _)
SumDiscountedTax(row, p, T) ==
    IF T = {} THEN Zero
    ELSE LET t == CHOOSE x \in T : TRUE
         IN  RAdd(DiscountedTax(row, p, t), SumDiscountedTax(row, p, T \ {t}))

\* C10: with projection_years = N >= 1, foregone_tax_pv of a row is
\* vacant_units times the sum over t = 1..N of the discounted tax of year t,
\* a value that no other row of the table enters.
C10_ForegoneTaxIsClosedFormSum ==
    (IsSome(results) /\ Get(params)["projection_years"] >= 1) =>
        \A i \in 1..Len(Get(results)) :
            Get(results)[i].foregone_tax_pv =
                RMul(Get(df)[i].vacant_units,
                     SumDiscountedTax(Get(df)[i], Get(params),
                                      1..Get(params)["projection_years"]))

\* A table of several rows was projected over at least three years with decay
\* and discounting, one row having been vacant for two years.
C10_Witness ==
    /\ IsSome(results)
    /\ Get(params)["projection_years"] >= 3
    /\ Get(params)["assessment_decay_rate"].n > 0
    /\ Get(params)["discount_rate"].n > 0
    /\ Len(Get(results)) >= 2
    /\ \E i \in 1..Len(Get(results)) :
          /\ Get(results)[i].years_vacant_avg = FromInt(2)
          /\ Get(results)[i].foregone_tax_pv.n > 0

=============================================================================
